---- MODULE Spec2Model ----
(***************************************************************************)
(* Model of bricktowers/midnight-local-network: the configuration classes  *)
(* (src/src/config.ts), the wallet lifecycle helper TestWallet             *)
(* (src/src/commons.ts) and the create-wallet command line entry point     *)
(* (src/unnamed/part_000).                                                 *)
(*                                                                         *)
(* The wallet SDK, the indexer/node/proof server and RxJS are external.    *)
(* The SDK is modelled as an environment that settles each promise either  *)
(* way and pushes arbitrary state snapshots; the RxJS operators are        *)
(* modelled by their documented behaviour (throttleTime with its default   *)
(* configuration leading = true, trailing = false; firstValueFrom          *)
(* unsubscribes on the first value).                                       *)
(***************************************************************************)
EXTENDS Integers, Sequences, FiniteSets, TLC

VARIABLES
    \* ---- one waitForFunds subscription
    now,          \* milliseconds elapsed since waitForFunds subscribed
    pushed,       \* number of snapshots wallet.state() pushed since then
    firstFunded,  \* history: native balance of the first pushed snapshot that
                  \* is synced with a positive balance (0: none so far)
    log,          \* the snapshots that reached the tap (were logged): [idx, at, snap]
    throttled,    \* throttleTime: a duration timer is running
    timerAt,      \* throttleTime: when the running duration timer is due
    stopped,      \* the SDK will push no further snapshot
    wf,           \* the waitForFunds promise: "idle" | "pending" | "resolved"
    wfValue,      \* the value it resolved with
    \* ---- process-wide state of midnight-js-network-id, and the Configs built
    networkId,    \* "unset" | "Undeployed" | "TestNet"
    constructed,  \* the Config variants constructed so far
    \* ---- the running TestWallet helper
    hpc,          \* "none" | "awaitBuild" | "awaitFirstState" | "awaitFunds" | "returned" | "threw"
    fn,           \* which helper runs
    cfgArg,       \* the Config it was passed
    seed,         \* the seed it uses
    sdk,          \* the SDK calls it made, in order
    builtNetId,   \* the network id it passed to WalletBuilder.buildFromSeed
    walletBuilt,  \* WalletBuilder.buildFromSeed returned a wallet handle
    firstState,   \* the balances of the first state it read (a set: empty until read)
    logged,       \* the balances it logged as "Wallet balance is", in order
    \* ---- the create-wallet entry point
    pc,           \* position of main, or of the caller of the helper
    argv,         \* the command line arguments after the script name
    network,      \* main's network
    config,       \* main's config
    wallet,       \* main's wallet is not null
    closeAttempts,\* calls of wallet.close()
    exitCode,     \* process.exitCode (0 while undefined)
    exitStatus,   \* status the process exited with (-1: still running)
    printed,      \* what went to the console: "none" | "usage" | "invalid" | "banner"
    mainOutcome,  \* the promise main() returned: "pending" | "resolved" | "rejected"
    bannerThrew,  \* history: printing the banner threw
    closeFailed   \* history: wallet.close() failed

wfVars == <<now, pushed, firstFunded, log, throttled, timerAt, stopped, wf, wfValue>>
cfgVars == <<networkId, constructed>>
helperVars == <<hpc, fn, cfgArg, seed, sdk, builtNetId, walletBuilt, firstState, logged>>
cliVars == <<pc, argv, network, config, wallet, closeAttempts, exitCode, exitStatus,
             printed, mainOutcome, bannerThrew, closeFailed>>
vars == <<wfVars, cfgVars, helperVars, cliVars>>

----------------------------------------------------------------------------
(* Bounds of the model *)

MaxPush == 3      \* snapshots the SDK pushes to one waitForFunds subscription
MaxBal == 2       \* largest native-token amount in a snapshot
MaxTicks == 2     \* clock advances during one waitForFunds subscription

----------------------------------------------------------------------------
(* Wallet state snapshots *)

NativeToken == "native"

\* WalletState.syncProgress is optional: the empty set is "absent".
SyncProgresses == {{}} \cup {{[synced |-> b]} : b \in BOOLEAN}

\* WalletState.balances maps token ids to amounts; the native entry may be absent.
BalanceMaps == {<<>>} \cup {[t \in {NativeToken} |-> n] : n \in 0..MaxBal}

Snapshots == [syncProgress : SyncProgresses, balances : BalanceMaps]

\* What the fund-wait protocol waits for: synced is true and the native
\* balance is present and positive.
Funded(s) ==
    /\ s.syncProgress = {[synced |-> TRUE]}
    /\ NativeToken \in DOMAIN s.balances
    /\ s.balances[NativeToken] >= 1

----------------------------------------------------------------------------
(* Seeds *)

GENESIS_MINT_WALLET_SEED == "0000000000000000000000000000000000000000000000000000000000000001"

\* toHex(randomBytes(32)): some 64-digit hex string.
FreshSeeds == {"a3..e1", "5c..07"}

Seeds == {GENESIS_MINT_WALLET_SEED} \cup FreshSeeds

----------------------------------------------------------------------------
(* config.ts *)

Networks == {"standalone", "testnet"}

\* The network id each Config class sets in its constructor.
VariantNetworkId(variant) ==
    IF variant = "standalone" THEN "Undeployed" ELSE "TestNet"

\* new StandaloneConfig() / new TestnetRemoteConfig()
NewConfig(variant) ==
    /\ networkId' = VariantNetworkId(variant)
    /\ constructed' = constructed \cup {variant}

\* getZswapNetworkId(): the process-wide network id.
GetZswapNetworkId == networkId

----------------------------------------------------------------------------
(* TestWallet.waitForFunds *)

\* Rx.throttleTime(10_000)
ThrottleDuration == 10000

\* The clock of the model advances in half throttle windows.
TickMs == ThrottleDuration \div 2

\* The mutant: any present syncProgress passes.
MutSyncedFilter(state) == state.syncProgress # {}

\* Rx.filter((state) => state.syncProgress?.synced === true)
SyncedFilter(state) == \E p \in state.syncProgress : p.synced = TRUE

\* Rx.map((s) => s.balances[nativeToken()] ?? 0n)
BalanceOrZero(balances) ==
    IF NativeToken \in DOMAIN balances THEN balances[NativeToken] ELSE 0

NativeBalance(s) == BalanceOrZero(s.balances)

\* The mutant: a zero balance passes.
MutPositiveFilter(balance) == balance >= 0

\* Rx.filter((balance) => balance > 0n)
PositiveFilter(balance) == balance > 0

\* The mutant: no throttle.
MutThrottleOpen == TRUE

\* throttleTime lets a value through only while no duration timer runs.
ThrottleOpen == ~throttled

\* The mutant: the subscription outlives the first value.
MutSubscribed == wf # "idle"

\* firstValueFrom unsubscribes from the source once it has a value.
Subscribed == wf = "pending"

\* Rx.firstValueFrom(wallet.state().pipe(...)): subscribe to the state stream.
WaitForFunds ==
    /\ now' = 0
    /\ pushed' = 0
    /\ firstFunded' = 0
    /\ log' = <<>>
    /\ throttled' = FALSE
    /\ timerAt' = 0
    /\ stopped' = FALSE
    /\ wf' = "pending"
    /\ wfValue' = 0

\* No waitForFunds subscription exists.
NoWaitForFunds ==
    /\ now' = 0
    /\ pushed' = 0
    /\ firstFunded' = 0
    /\ log' = <<>>
    /\ throttled' = FALSE
    /\ timerAt' = 0
    /\ stopped' = FALSE
    /\ wf' = "idle"
    /\ wfValue' = 0

\* wallet.state() pushes a snapshot; the pipeline handles it.
Push(s) ==
    /\ wf # "idle"
    /\ ~stopped
    /\ pushed < MaxPush
    /\ pushed' = pushed + 1
    /\ firstFunded' = IF firstFunded = 0 /\ Funded(s)
                      THEN s.balances[NativeToken] ELSE firstFunded
    /\ IF Subscribed /\ ThrottleOpen
       THEN /\ log' = Append(log, [idx |-> pushed + 1, at |-> now, snap |-> s])
            /\ IF SyncedFilter(s) /\ PositiveFilter(NativeBalance(s))
               THEN /\ wf' = "resolved"
                    /\ wfValue' = NativeBalance(s)
                    /\ throttled' = FALSE
                    /\ UNCHANGED timerAt
               ELSE /\ throttled' = TRUE
                    /\ timerAt' = now + ThrottleDuration
                    /\ UNCHANGED <<wf, wfValue>>
       ELSE UNCHANGED <<log, throttled, timerAt, wf, wfValue>>
    /\ UNCHANGED <<now, stopped, cfgVars, helperVars, cliVars>>

\* The duration timer of throttleTime fires, no earlier than it is due.
TimerFire ==
    /\ throttled
    /\ now >= timerAt
    /\ throttled' = FALSE
    /\ UNCHANGED <<now, pushed, firstFunded, log, timerAt, stopped, wf, wfValue>>
    /\ UNCHANGED <<cfgVars, helperVars, cliVars>>

\* Time passes.
Tick ==
    /\ wf # "idle"
    /\ now + TickMs <= MaxTicks * TickMs
    /\ now' = now + TickMs
    /\ UNCHANGED <<pushed, firstFunded, log, throttled, timerAt, stopped, wf, wfValue>>
    /\ UNCHANGED <<cfgVars, helperVars, cliVars>>

\* The SDK goes quiet: wallet.state() emits nothing from here on.
StreamStop ==
    /\ wf # "idle"
    /\ ~stopped
    /\ stopped' = TRUE
    /\ UNCHANGED <<now, pushed, firstFunded, log, throttled, timerAt, wf, wfValue>>
    /\ UNCHANGED <<cfgVars, helperVars, cliVars>>

----------------------------------------------------------------------------
(* TestWallet.buildFreshWallet, buildWalletFromSeed, buildWalletAndWaitForFunds *)

Helpers == {"buildFreshWallet", "buildWalletFromSeed", "buildWalletAndWaitForFunds"}

\* The mutant: a balance of zero is not waited for.
MutNeedsFunds(balances) == NativeToken \notin DOMAIN balances

\* if (balance === undefined || balance === 0n)
NeedsFunds(balances) ==
    \/ NativeToken \notin DOMAIN balances
    \/ balances[NativeToken] = 0

\* A helper is entered: it calls WalletBuilder.buildFromSeed(indexer, indexerWS,
\* proofServer, node, seed, getZswapNetworkId(), 'warn') and awaits the wallet.
CallHelper(f, cfg, s) ==
    /\ hpc = "none"
    /\ hpc' = "awaitBuild"
    /\ fn' = f
    /\ cfgArg' = cfg
    /\ seed' = s
    /\ sdk' = <<"buildFromSeed">>
    /\ builtNetId' = GetZswapNetworkId
    /\ walletBuilt' = FALSE
    /\ firstState' = {}
    /\ logged' = <<>>
    /\ NoWaitForFunds

\* buildFromSeed settles. When it returned a wallet the helper calls
\* wallet.start() and subscribes to wallet.state() for the first state.
BuildSettles(built, started) ==
    /\ hpc = "awaitBuild"
    /\ walletBuilt' = built
    /\ IF ~built
       THEN /\ hpc' = "threw"
            /\ UNCHANGED sdk
       ELSE IF ~started
       THEN /\ hpc' = "threw"
            /\ sdk' = sdk \o <<"start">>
       ELSE /\ hpc' = "awaitFirstState"
            /\ sdk' = sdk \o <<"start", "state">>
    /\ UNCHANGED <<fn, cfgArg, seed, builtNetId, firstState, logged>>
    /\ UNCHANGED <<wfVars, cfgVars, cliVars>>

\* Rx.firstValueFrom(wallet.state()) rejects.
FirstStateFails ==
    /\ hpc = "awaitFirstState"
    /\ hpc' = "threw"
    /\ UNCHANGED <<fn, cfgArg, seed, sdk, builtNetId, walletBuilt, firstState, logged>>
    /\ UNCHANGED <<wfVars, cfgVars, cliVars>>

\* The first state arrives: seed, address and balance are logged;
\* buildWalletAndWaitForFunds goes on to waitForFunds when the balance is
\* zero or absent, the others return.
FirstState(balances) ==
    /\ hpc = "awaitFirstState"
    /\ firstState' = {balances}
    /\ IF fn = "buildWalletAndWaitForFunds"
       THEN IF NeedsFunds(balances)
            THEN /\ logged' = Append(logged, 0)
                 /\ sdk' = Append(sdk, "state")
                 /\ WaitForFunds
                 /\ hpc' = "awaitFunds"
            ELSE /\ logged' = Append(logged, balances[NativeToken])
                 /\ hpc' = "returned"
                 /\ UNCHANGED <<sdk, wfVars>>
       ELSE /\ logged' = Append(logged, BalanceOrZero(balances))
            /\ hpc' = "returned"
            /\ UNCHANGED <<sdk, wfVars>>
    /\ UNCHANGED <<fn, cfgArg, seed, builtNetId, walletBuilt>>
    /\ UNCHANGED <<cfgVars, cliVars>>

\* balance = await this.waitForFunds(wallet); the balance is logged and the
\* wallet returned.
FundsArrived ==
    /\ hpc = "awaitFunds"
    /\ wf = "resolved"
    /\ logged' = Append(logged, wfValue)
    /\ hpc' = "returned"
    /\ UNCHANGED <<fn, cfgArg, seed, sdk, builtNetId, walletBuilt, firstState>>
    /\ UNCHANGED <<wfVars, cfgVars, cliVars>>

----------------------------------------------------------------------------
(* Callers of the helper as a library: test code that constructs *)
(* configurations and builds wallets *)

NewStandaloneConfig ==
    /\ pc = "lib"
    /\ hpc = "none"
    /\ NewConfig("standalone")
    /\ UNCHANGED <<wfVars, helperVars, cliVars>>

NewTestnetRemoteConfig ==
    /\ pc = "lib"
    /\ hpc = "none"
    /\ NewConfig("testnet")
    /\ UNCHANGED <<wfVars, helperVars, cliVars>>

\* new LocalTestConfig(): its dappConfig field is a new StandaloneConfig().
NewLocalTestConfig ==
    /\ pc = "lib"
    /\ hpc = "none"
    /\ NewConfig("standalone")
    /\ UNCHANGED <<wfVars, helperVars, cliVars>>

BuildFreshWallet(cfg) ==
    /\ pc = "lib"
    /\ cfg \in constructed
    /\ \E s \in FreshSeeds : CallHelper("buildFreshWallet", cfg, s)
    /\ UNCHANGED <<cfgVars, cliVars>>

BuildWalletFromSeed(cfg, s) ==
    /\ pc = "lib"
    /\ cfg \in constructed
    /\ CallHelper("buildWalletFromSeed", cfg, s)
    /\ UNCHANGED <<cfgVars, cliVars>>

BuildWalletAndWaitForFunds(cfg, s) ==
    /\ pc = "lib"
    /\ cfg \in constructed
    /\ CallHelper("buildWalletAndWaitForFunds", cfg, s)
    /\ UNCHANGED <<cfgVars, cliVars>>

\* setup(testConfiguration) with a LocalTestConfig: dappConfig is a
\* StandaloneConfig and seed the genesis seed.
Setup ==
    /\ pc = "lib"
    /\ "standalone" \in constructed
    /\ CallHelper("buildWalletAndWaitForFunds", "standalone", GENESIS_MINT_WALLET_SEED)
    /\ UNCHANGED <<cfgVars, cliVars>>

\* The caller takes the helper's result (or its error) and carries on.
HelperDone ==
    /\ pc = "lib"
    /\ hpc \in {"returned", "threw"}
    /\ hpc' = "none"
    /\ UNCHANGED <<fn, cfgArg, seed, sdk, builtNetId, walletBuilt, firstState, logged>>
    /\ NoWaitForFunds
    /\ UNCHANGED <<cfgVars, cliVars>>

----------------------------------------------------------------------------
(* The create-wallet entry point *)

Argvs == {<<>>} \cup {<<a>> : a \in {"", "standalone", "testnet", "mainnet", "Testnet"}}

\* if (!network): the argument is undefined or the empty string.
Missing(args) == Len(args) = 0 \/ args[1] = ""

\* The mutant: the second check is missing.
MutValidNetwork(n) == TRUE

\* network !== 'standalone' && network !== 'testnet' is false.
ValidNetwork(n) == n = "standalone" \/ n = "testnet"

\* process.exitCode = 1 in the catch block, process.exit(1) elsewhere.
ExitFailure == 1

\* The mutant: a failed close fails the run.
MutCloseCatch(code) == [exitCode |-> 1, outcome |-> "resolved"]

\* catch (closeErr) { logger.warn(...) }: the exit code stays, main resolves.
CloseCatch(code) == [exitCode |-> code, outcome |-> "resolved"]

\* if (wallet) in the finally block.
ShouldClose(w) == w

GetNetworkFromArgs ==
    /\ pc = "main"
    /\ IF Missing(argv)
       THEN /\ printed' = "usage"
            /\ exitStatus' = ExitFailure
            /\ pc' = "exited"
            /\ UNCHANGED network
       ELSE IF ~ValidNetwork(argv[1])
       THEN /\ printed' = "invalid"
            /\ exitStatus' = ExitFailure
            /\ pc' = "exited"
            /\ UNCHANGED network
       ELSE /\ network' = argv[1]
            /\ pc' = "getConfig"
            /\ UNCHANGED <<printed, exitStatus>>
    /\ UNCHANGED <<argv, config, wallet, closeAttempts, exitCode, mainOutcome,
                   bannerThrew, closeFailed>>
    /\ UNCHANGED <<wfVars, cfgVars, helperVars>>

\* The switch has a case for each NetworkType and no default.
GetConfigForNetwork ==
    /\ pc = "getConfig"
    /\ IF network \in Networks
       THEN /\ NewConfig(network)
            /\ config' = network
       ELSE /\ config' = "undefined"
            /\ UNCHANGED cfgVars
    /\ pc' = "build"
    /\ UNCHANGED <<argv, network, wallet, closeAttempts, exitCode, exitStatus,
                   printed, mainOutcome, bannerThrew, closeFailed>>
    /\ UNCHANGED <<wfVars, helperVars>>

\* const result = await testWallet.buildFreshWallet(config)
MainBuildFresh ==
    /\ pc = "build"
    /\ pc' = "awaitBuildFresh"
    /\ IF config \in Networks
       THEN \E s \in FreshSeeds : CallHelper("buildFreshWallet", config, s)
       ELSE \* destructuring an undefined config throws
            /\ hpc' = "threw"
            /\ UNCHANGED <<fn, cfgArg, seed, sdk, builtNetId, walletBuilt,
                           firstState, logged, wfVars>>
    /\ UNCHANGED <<argv, network, config, wallet, closeAttempts, exitCode,
                   exitStatus, printed, mainOutcome, bannerThrew, closeFailed>>
    /\ UNCHANGED cfgVars

\* buildFreshWallet settled: the rest of the try block, the catch block and
\* the finally block up to await wallet.close().
MainAfterBuild(bannerOk) ==
    /\ pc = "awaitBuildFresh"
    /\ hpc \in {"returned", "threw"}
    /\ wallet' = (hpc = "returned")
    /\ IF hpc = "returned" /\ bannerOk
       THEN /\ printed' = "banner"
            /\ UNCHANGED <<exitCode, bannerThrew>>
       ELSE /\ exitCode' = ExitFailure
            /\ bannerThrew' = (hpc = "returned")
            /\ UNCHANGED printed
    /\ IF ShouldClose(wallet')
       THEN /\ closeAttempts' = closeAttempts + 1
            /\ sdk' = Append(sdk, "close")
            /\ pc' = "awaitClose"
            /\ UNCHANGED mainOutcome
       ELSE /\ mainOutcome' = "resolved"
            /\ pc' = "mainDone"
            /\ UNCHANGED <<closeAttempts, sdk>>
    /\ UNCHANGED <<argv, network, config, exitStatus, closeFailed>>
    /\ UNCHANGED <<hpc, fn, cfgArg, seed, builtNetId, walletBuilt, firstState, logged>>
    /\ UNCHANGED <<wfVars, cfgVars>>

\* await wallet.close() settles.
CloseSettles(ok) ==
    /\ pc = "awaitClose"
    /\ closeFailed' = ~ok
    /\ IF ok
       THEN /\ mainOutcome' = "resolved"
            /\ UNCHANGED exitCode
       ELSE /\ mainOutcome' = CloseCatch(exitCode).outcome
            /\ exitCode' = CloseCatch(exitCode).exitCode
    /\ pc' = "mainDone"
    /\ UNCHANGED <<argv, network, config, wallet, closeAttempts, exitStatus,
                   printed, bannerThrew>>
    /\ UNCHANGED <<wfVars, cfgVars, helperVars>>

\* main() settled: main().catch exits with 1 on a rejection; otherwise the
\* process ends with process.exitCode.
ProcessExit ==
    /\ pc = "mainDone"
    /\ exitStatus' = IF mainOutcome = "rejected" THEN ExitFailure ELSE exitCode
    /\ pc' = "exited"
    /\ UNCHANGED <<argv, network, config, wallet, closeAttempts, exitCode,
                   printed, mainOutcome, bannerThrew, closeFailed>>
    /\ UNCHANGED <<wfVars, cfgVars, helperVars>>

----------------------------------------------------------------------------
(* Specifications *)

InitCommon ==
    /\ now = 0 /\ pushed = 0 /\ firstFunded = 0 /\ log = <<>>
    /\ throttled = FALSE /\ timerAt = 0 /\ stopped = FALSE /\ wfValue = 0
    /\ networkId = "unset" /\ constructed = {}
    /\ hpc = "none" /\ fn = "none" /\ cfgArg = "none" /\ seed = "none"
    /\ sdk = <<>> /\ builtNetId = "none" /\ walletBuilt = FALSE
    /\ firstState = {} /\ logged = <<>>
    /\ network = "none" /\ config = "none" /\ wallet = FALSE
    /\ closeAttempts = 0 /\ exitCode = 0 /\ exitStatus = -1
    /\ printed = "none" /\ mainOutcome = "pending"
    /\ bannerThrew = FALSE /\ closeFailed = FALSE

\* waitForFunds called on a wallet's state stream.
InitWait ==
    /\ InitCommon
    /\ wf = "pending"
    /\ pc = "waitForFunds"
    /\ argv = <<>>

NextWait ==
    \/ \E s \in Snapshots : Push(s)
    \/ TimerFire
    \/ Tick
    \/ StreamStop

SpecWait == InitWait /\ [][NextWait]_vars

\* The helper used as a library.
InitLib ==
    /\ InitCommon
    /\ wf = "idle"
    /\ pc = "lib"
    /\ argv = <<>>

NextLib ==
    \/ NewStandaloneConfig
    \/ NewTestnetRemoteConfig
    \/ NewLocalTestConfig
    \/ \E cfg \in Networks : BuildFreshWallet(cfg)
    \/ \E cfg \in Networks, s \in Seeds : BuildWalletFromSeed(cfg, s)
    \/ \E cfg \in Networks, s \in Seeds : BuildWalletAndWaitForFunds(cfg, s)
    \/ Setup
    \/ \E built, started \in BOOLEAN : BuildSettles(built, started)
    \/ FirstStateFails
    \/ \E b \in BalanceMaps : FirstState(b)
    \/ \E s \in Snapshots : Push(s)
    \/ TimerFire
    \/ Tick
    \/ StreamStop
    \/ FundsArrived
    \/ HelperDone

SpecLib == InitLib /\ [][NextLib]_vars

\* One run of create-wallet.
InitCli ==
    /\ InitCommon
    /\ wf = "idle"
    /\ pc = "main"
    /\ argv \in Argvs

NextCli ==
    \/ GetNetworkFromArgs
    \/ GetConfigForNetwork
    \/ MainBuildFresh
    \/ \E built, started \in BOOLEAN : BuildSettles(built, started)
    \/ FirstStateFails
    \/ \E b \in BalanceMaps : FirstState(b)
    \/ \E bannerOk \in BOOLEAN : MainAfterBuild(bannerOk)
    \/ \E ok \in BOOLEAN : CloseSettles(ok)
    \/ ProcessExit

SpecCli == InitCli /\ [][NextCli]_vars

----------------------------------------------------------------------------
(* Properties of waitForFunds, checked under SpecWait *)

LastLogged == log[Len(log)]

\* C1 as stated: when waitForFunds has resolved, its value is the native
\* balance of the first snapshot the wallet pushed that is synced with a
\* positive balance, counting the snapshots the throttle dropped.
C1_FirstFundedOfStream ==
    wf = "resolved" => wfValue = firstFunded

\* C1 amended: when waitForFunds has resolved, its value is the native balance
\* of the first snapshot that passed the throttle (was evaluated) and is synced
\* with a positive balance; funded snapshots the throttle dropped do not count.
C1_FirstFundedEvaluated ==
    wf = "resolved" =>
        \E i \in 1..Len(log) :
            /\ Funded(log[i].snap)
            /\ \A j \in 1..(i - 1) : ~Funded(log[j].snap)
            /\ wfValue = log[i].snap.balances[NativeToken]

\* A funded snapshot was dropped by the throttle and a later one, with another
\* balance, resolved waitForFunds.
C1_Witness ==
    /\ wf = "resolved"
    /\ firstFunded # 0
    /\ firstFunded # wfValue
    /\ Len(log) >= 2

\* C2: whenever waitForFunds has resolved, the snapshot that resolved it (the
\* last one evaluated) has synced = true and a native balance that is present
\* and strictly positive, and the resolved value is strictly positive.
C2_ResolvedOnlyWhenFunded ==
    wf = "resolved" =>
        /\ Len(log) >= 1
        /\ LastLogged.snap.syncProgress = {[synced |-> TRUE]}
        /\ NativeToken \in DOMAIN LastLogged.snap.balances
        /\ LastLogged.snap.balances[NativeToken] >= 1
        /\ wfValue >= 1

\* An unsynced snapshot with a positive balance was evaluated without
\* resolving, and a later snapshot resolved.
C2_Witness ==
    /\ wf = "resolved"
    /\ Len(log) = 2
    /\ log[1].snap.syncProgress # {[synced |-> TRUE]}
    /\ NativeToken \in DOMAIN log[1].snap.balances
    /\ log[1].snap.balances[NativeToken] >= 1

C7_Spacing ==
    /\ pushed >= 1 => (Len(log) >= 1 /\ log[1].idx = 1)
    /\ \A i, j \in 1..Len(log) : i < j => log[j].at - log[i].at >= 10000

C7_Dropped ==
    (pushed' = pushed + 1 /\ Len(log) >= 1 /\ now - LastLogged.at < 10000)
        => log' = log

\* C7: a snapshot that arrives less than 10 seconds after the last evaluated
\* one is dropped without being logged; any two evaluated snapshots arrived at
\* least 10 seconds apart; the first snapshot of the stream is evaluated.
C7_Throttle == []C7_Spacing /\ [][C7_Dropped]_vars

\* Two snapshots were evaluated and one between them was dropped.
C7_Witness ==
    /\ Len(log) = 2
    /\ log[2].idx = 3

\* C9: once the stream has gone quiet and no throttle timer is left running,
\* waitForFunds has resolved if the stream delivered a snapshot that is synced
\* with a positive balance (one on which the pipeline without the throttle
\* resolves).
C9_ThrottleHarmless ==
    (stopped /\ ~throttled /\ firstFunded # 0) => wf = "resolved"

C10_Pending ==
    /\ wf \in {"pending", "resolved"}
    /\ wf = "pending" <=> \A i \in 1..Len(log) : ~Funded(log[i].snap)

C10_Once ==
    /\ wf = "resolved" => (wf' = "resolved" /\ wfValue' = wfValue /\ log' = log)
    /\ pushed' = pushed => (wf' = wf /\ wfValue' = wfValue)

\* C10: waitForFunds resolves at most once, with one value, and after that no
\* snapshot is evaluated or logged; it is pending exactly while no evaluated
\* snapshot is synced with a positive balance, and no step other than the
\* arrival of a snapshot (the passing of time, a timer) settles it.
C10_FirstMatchNoTimeout == []C10_Pending /\ [][C10_Once]_vars

\* After the resolution time passed and another snapshot arrived.
C10_Witness ==
    /\ wf = "resolved"
    /\ pushed > LastLogged.idx
    /\ now > LastLogged.at

----------------------------------------------------------------------------
(* Properties of the helper used as a library, checked under SpecLib *)

\* C5: at every WalletBuilder.buildFromSeed call of a helper, the network id
\* passed is the one of the Config variant passed to the helper.
C5_NetworkIdMatchesConfig ==
    hpc # "none" =>
        builtNetId = (IF cfgArg = "standalone" THEN "Undeployed" ELSE "TestNet")

\* C8: buildWalletAndWaitForFunds subscribes to waitForFunds if and only if the
\* native balance of the first state is zero or absent (the other helpers
\* never do); it returns only after waitForFunds resolved; the SDK calls start
\* with buildFromSeed, start, state in this order; the balance logged last
\* before it returns is strictly positive.
C8_WaitsIffUnfunded ==
    /\ fn # "buildWalletAndWaitForFunds" => wf = "idle"
    /\ hpc \in {"awaitBuild", "awaitFirstState", "threw"} => wf = "idle"
    /\ hpc = "awaitFunds" => wf # "idle"
    /\ (fn = "buildWalletAndWaitForFunds" /\ hpc \in {"awaitFunds", "returned"}) =>
        /\ firstState # {}
        /\ \A b \in firstState :
              wf # "idle" <=> (NativeToken \notin DOMAIN b \/ b[NativeToken] = 0)
        /\ Len(sdk) >= 3
        /\ SubSeq(sdk, 1, 3) = <<"buildFromSeed", "start", "state">>
    /\ (fn = "buildWalletAndWaitForFunds" /\ hpc = "returned") =>
        /\ wf \in {"idle", "resolved"}
        /\ logged # <<>>
        /\ logged[Len(logged)] >= 1

\* buildWalletAndWaitForFunds returned after waiting for funds on a first
\* state whose native balance was present and zero.
C8_Witness ==
    /\ fn = "buildWalletAndWaitForFunds"
    /\ hpc = "returned"
    /\ wf = "resolved"
    /\ \E b \in firstState : NativeToken \in DOMAIN b
    /\ Len(logged) = 2

----------------------------------------------------------------------------
(* Properties of the create-wallet entry point, checked under SpecCli *)

ArgIsValid == Len(argv) >= 1 /\ argv[1] \in {"standalone", "testnet"}

\* C3: once main has finished, exactly one wallet.close() was attempted if
\* the SDK constructed a wallet, and none otherwise.
C3_ClosedIffConstructed ==
    pc \in {"mainDone", "exited"} =>
        closeAttempts = (IF walletBuilt THEN 1 ELSE 0)

\* C4: with a missing network argument or one outside {standalone, testnet},
\* no configuration is selected, the network id is never set, no seed is
\* generated and no SDK call is made, and the process exits with status 1
\* after printing the usage or the error text.
C4_InvalidArgsExitEarly ==
    ~ArgIsValid =>
        /\ pc \in {"main", "exited"}
        /\ network = "none"
        /\ config = "none"
        /\ networkId = "unset"
        /\ constructed = {}
        /\ seed = "none"
        /\ hpc = "none"
        /\ sdk = <<>>
        /\ ~walletBuilt
        /\ closeAttempts = 0
        /\ pc = "exited" => (exitStatus = 1 /\ printed \in {"usage", "invalid"})

\* create-wallet mainnet has exited.
C4_Witness ==
    /\ argv = <<"mainnet">>
    /\ pc = "exited"
    /\ printed = "invalid"

\* C6: with a valid network argument the process exits only after main has
\* resolved (the finalization ran, nothing reached main().catch), with status
\* 1 if buildFreshWallet or the banner threw and 0 otherwise, whatever
\* wallet.close() did.
C6_ExitStatus ==
    (ArgIsValid /\ exitStatus # -1) =>
        /\ pc = "exited"
        /\ mainOutcome = "resolved"
        /\ exitStatus = (IF hpc = "threw" \/ bannerThrew THEN 1 ELSE 0)

\* A successful build followed by a failed close has exited with status 0.
C6_Witness ==
    /\ pc = "exited"
    /\ hpc = "returned"
    /\ ~bannerThrew
    /\ closeFailed
    /\ closeAttempts = 1
    /\ exitStatus = 0

====
